---- MODULE Spec2Model ----
(***************************************************************************)
(* scx_stats server (rust/scx_stats/src/server.rs): the builder            *)
(* ScxStatsServer, the acceptor ScxStatsServerInner::listen and one        *)
(* ScxStatsServerInner::serve thread per accepted connection.              *)
(*                                                                         *)
(* JSON values and error descriptions are modelled by their token          *)
(* sequences (sequences of strings); BTreeMap<String, _> by functions      *)
(* whose domain is the key set, iterated in key order.                     *)
(***************************************************************************)
EXTENDS Integers, Sequences, FiniteSets, TLC

\* ---------------------------------------------------------------- bounds
MaxConns == 2      \* turns of the accept loop over the whole run
MaxLines == 2      \* lines a client sends on one connection
MaxSent == 2       \* lines sent over all connections
MaxQueue == 1      \* lines sent and not yet read on one connection
MaxRegs == 2       \* add_stats calls (one producer handle each)
MaxMetaRegs == 2   \* add_stats_meta calls
MaxLaunch == 2     \* launch calls that succeed
MaxLate == 1       \* builder calls after the first launch that succeeded

\* ------------------------------------------------------------- constants
EINVAL == 22       \* libc::EINVAL on Linux

\* ----------------------------------------------------------- input sets
Names == {"cpu", "top"}
KeyOrder == <<"cpu", "top">>           \* BTreeMap iteration order of Names
MetaNames == {"cpu"}                   \* names metadata is registered under
\* ScxStatsMeta: its name and the rest of it; the i-th descriptor registered
\* differs from the others
Meta(n, i) == [name |-> n, desc |-> ToString(i)]
DefaultPath == "/var/run/scx/root/stats"
Paths == {DefaultPath}
Conns == 1 .. MaxConns
Prods == 1 .. MaxRegs
Srvs == 1 .. MaxLaunch

\* BTreeMap<String, String> values used as request args
EmptyArgs == [k \in {} |-> ""]
Arg1(k, v) == [i \in {k} |-> v]
ArgMaps == {Arg1("target", "cpu"), Arg1("target", "nope"), Arg1("x", "1")}

\* What read_line can find on the stream.  form: "bad_utf8" (a line of bytes
\* that are not UTF-8), "garbage" (UTF-8 text that is not JSON), "json" (a
\* JSON object; hasReq / hasArgs tell which of the two keys it carries),
\* "eof" (nothing more: the peer has shut the stream down).
\* seq is the line's position among the lines the peer sends on its connection.
RawLine(form, hasReq, req, hasArgs, args) ==
    [form |-> form, hasReq |-> hasReq, req |-> req, hasArgs |-> hasArgs, args |-> args,
     seq |-> 0]
Stamp(l, n) == [l EXCEPT !.seq = n]
JsonLines ==
    {RawLine("json", TRUE, "stats", TRUE, a) : a \in ArgMaps}
    \cup {RawLine("json", TRUE, "stats_meta", FALSE, EmptyArgs),
          RawLine("json", TRUE, "bogus", TRUE, EmptyArgs)}
LineKinds ==
    JsonLines \cup {RawLine("garbage", FALSE, "", FALSE, EmptyArgs),
                    RawLine("bad_utf8", FALSE, "", FALSE, EmptyArgs)}
Eof == RawLine("eof", FALSE, "", FALSE, EmptyArgs)

\* ------------------------------------------------------- pure functions
\* anyhow::Error: a message chain, with or without a ScxStatsErrno context
ArgKeyOrder == <<"target", "x">>       \* BTreeMap iteration order of arg keys
ErrUntagged(msg) == [tagged |-> FALSE, code |-> 0, msg |-> msg]
ErrTagged(code, msg) == [tagged |-> TRUE, code |-> code, msg |-> msg]
NoErr == ErrUntagged(<<>>)

\* {:?} of a BTreeMap<String, String>: its entries in key order
ArgTokens(args) ==
    LET F[i \in 0 .. Len(ArgKeyOrder)] ==
            IF i = 0 THEN <<>>
            ELSE F[i - 1] \o (IF ArgKeyOrder[i] \in DOMAIN args
                              THEN <<ArgKeyOrder[i], args[ArgKeyOrder[i]]>>
                              ELSE <<>>)
    IN F[Len(ArgKeyOrder)]

\* {:?} of a ScxStatsRequest (derive(Debug))
DebugReq(req) == <<"ScxStatsRequest", req.req>> \o ArgTokens(req.args)

\* {:?} of an anyhow::Error: the outermost context first, then its causes
DebugErr(e) ==
    (IF e.tagged THEN <<"os error", ToString(e.code)>> ELSE <<>>) \o e.msg

\* serde_json::to_value of a String
StrValue(tokens) == <<"str">> \o tokens

\* serde_json::to_value of a BTreeMap<String, ScxStatsMeta>: key order
MetaValue(m) ==
    LET F[i \in 0 .. Len(KeyOrder)] ==
            IF i = 0 THEN <<"obj">>
            ELSE F[i - 1] \o (IF KeyOrder[i] \in DOMAIN m
                              THEN <<KeyOrder[i], m[KeyOrder[i]]>>
                              ELSE <<>>)
    IN F[Len(KeyOrder)]

\* (variant of Insert: the value already under the key is kept)
InsertIfAbsent(m, k, v) == [i \in DOMAIN m \cup {k} |-> IF i \in DOMAIN m THEN m[i] ELSE v]

\* BTreeMap::insert: a later value replaces the earlier one under the key
Insert(m, k, v) == [i \in DOMAIN m \cup {k} |-> IF i = k THEN v ELSE m[i]]
EmptyMap == [k \in {} |-> 0]
EmptyMeta == [k \in {} |-> ""]

\* serde_json::from_str::<ScxStatsRequest>; args has #[serde(default)]
NoReq == [req |-> "", args |-> EmptyArgs]
from_str(line) ==
    IF line.form # "json"
    THEN [ok |-> FALSE, req |-> NoReq, err |-> ErrUntagged(<<"expected value">>)]
    ELSE IF ~line.hasReq
    THEN [ok |-> FALSE, req |-> NoReq, err |-> ErrUntagged(<<"missing field req">>)]
    ELSE [ok |-> TRUE,
          req |-> [req |-> line.req,
                   args |-> IF line.hasArgs THEN line.args ELSE EmptyArgs],
          err |-> NoErr]

\* BufRead::read_line into a String: bytes that are not UTF-8 are an
\* io::Error of kind InvalidData
read_line_ok(line) == line.form # "bad_utf8"

\* (variant of Target: another default than "top")
TargetDefaultCpu(req) ==
    IF "target" \in DOMAIN req.args THEN req.args["target"] ELSE "cpu"

\* handle_request: the target of a "stats" request
Target(req) ==
    IF "target" \in DOMAIN req.args THEN req.args["target"] ELSE "top"

build_resp(errno, v) == [errno |-> errno, args |-> [resp |-> v]]
NoResp == build_resp(0, <<>>)

\* (variant of ErrnoOf: the ScxStatsErrno of the failure is not looked at)
ErrnoIgnoresTag(e) == EINVAL

\* (variant of ErrnoOf: the tagged code is taken as it is, 0 included)
ErrnoAsTagged(e) == IF e.tagged THEN e.code ELSE EINVAL

\* serve: the errno of a failed request
ErrnoOf(e) == IF e.tagged /\ e.code # 0 THEN e.code ELSE EINVAL
ErrResp(e) == build_resp(ErrnoOf(e), StrValue(DebugErr(e)))

\* (variant of UnknownTarget: tagged ENOENT)
UnknownTargetNoent(req) == ErrTagged(2, <<"unknown stat target">> \o DebugReq(req))

\* handle_request: the two failures it tags with EINVAL
UnknownTarget(req) == ErrTagged(EINVAL, <<"unknown stat target">> \o DebugReq(req))
UnknownCommand(req) == ErrTagged(EINVAL, <<"unknown command", req.req>>)

\* A producer is an opaque FnMut(&args) -> Result<Value>: what one call
\* can return.  It may answer a value computed from the args, an error
\* without errno, or an error tagged ScxStatsErrno(code).
EchoVal(args) == <<"obj">> \o ArgTokens(args)
Ok(v) == [ok |-> TRUE, val |-> v, err |-> NoErr]
Fail(e) == [ok |-> FALSE, val |-> <<>>, err |-> e]
NoRet == Fail(NoErr)
ErrnoTags == {0, 2}
FetchResults(args) ==
    {Ok(EchoVal(args)), Fail(ErrUntagged(<<"fetch failed">>))}
    \cup {Fail(ErrTagged(c, <<"fetch failed">>)) : c \in ErrnoTags}

\* ------------------------------------------------------------------ state
VARIABLES
    alive,              \* the builder value exists (not consumed by a failed launch)
    path,               \* ScxStatsServer.path: "none" or a path
    stats_meta_holder,  \* ScxStatsServer.stats_meta_holder
    stats_holder,       \* ScxStatsServer.stats_holder: name -> producer handle
    nextProd,           \* producer handles (Arc<Mutex<Box<..>>>) created so far
    statsLog,           \* add_stats calls since the holders were last empty
    metaLog,            \* add_stats_meta calls since the holders were last empty
    nMeta,              \* add_stats_meta calls so far
    late,               \* builder calls since the first launch that succeeded
    launchErr,          \* the context of the Err the last launch returned, or "none"
    fs,                 \* what is at each path: absent, stale, dir, sock
    sockSrv,            \* the listener behind the socket file at a path
    servers,            \* the ScxStatsServerInner values, one per successful launch
    acc,                \* per server: where its listen thread is
    dataLock,           \* per server: the thread holding data's Mutex, or 0
    prodLock,           \* per producer: the thread holding its Mutex, or 0
    calls,              \* per producer: its internal state (invocations so far)
    conn,               \* per turn of the accept loop: the serve thread and its peer
    nsent               \* lines sent over all connections

bvars == <<alive, path, stats_meta_holder, stats_holder, nextProd, statsLog, metaLog, nMeta, late, launchErr>>
fvars == <<fs, sockSrv>>
svars == <<servers, acc, dataLock, prodLock, calls>>
vars == <<alive, path, stats_meta_holder, stats_holder, nextProd, statsLog, metaLog, nMeta, late, launchErr,
          fs, sockSrv, servers, acc, dataLock, prodLock, calls, conn, nsent>>

NoLine == RawLine("json", FALSE, "", FALSE, EmptyArgs)
\* What the peer was sent last: the Response, the line it was computed from
\* and that line's position among the lines read
Sent(resp, line, k) == [resp |-> resp, line |-> line, k |-> k]
NoSent == Sent(NoResp, NoLine, 0)
\* A connection: the serve thread's position and locals (line, req, the
\* handle sel, resp), the stream (inq: what the peer has sent and serve has
\* not read; nread, nout: lines read and responses written; last: the
\* response written last), and what the producer call was given and
\* returned (passed, pre, ret)
NoConn ==
    [pc |-> "none", srv |-> 0, inq |-> <<>>, nread |-> 0, nout |-> 0,
     line |-> NoLine, req |-> NoReq, sel |-> 0, passed |-> EmptyArgs, pre |-> 0,
     ret |-> NoRet, resp |-> NoResp, last |-> NoSent, cause |-> "none"]

\* ScxStatsServer::new; the file system is the environment's
Init ==
    /\ alive = TRUE
    /\ path = "none"
    /\ stats_meta_holder = EmptyMeta
    /\ stats_holder = EmptyMap
    /\ nextProd = 0
    /\ statsLog = <<>>
    /\ metaLog = <<>>
    /\ nMeta = 0
    /\ late = 0
    /\ launchErr = "none"
    /\ fs \in [Paths -> {"absent", "stale", "dir"}]
    /\ sockSrv = [p \in Paths |-> 0]
    /\ servers = <<>>
    /\ acc = [s \in Srvs |-> "none"]
    /\ dataLock = [s \in Srvs |-> 0]
    /\ prodLock = [p \in Prods |-> 0]
    /\ calls = [p \in Prods |-> 0]
    /\ conn = [c \in Conns |-> NoConn]
    /\ nsent = 0

\* ---------------------------------------------------------------- builder
\* One more call on the builder (the bound on calls after a launch)
Call ==
    /\ alive
    /\ servers = <<>> \/ late < MaxLate
    /\ late' = IF servers = <<>> THEN 0 ELSE late + 1

add_stats_meta(meta) ==
    /\ Call
    /\ nMeta < MaxMetaRegs
    /\ stats_meta_holder' = Insert(stats_meta_holder, meta.name, meta.desc)
    /\ metaLog' = Append(metaLog, meta)
    /\ nMeta' = nMeta + 1
    /\ UNCHANGED <<alive, path, stats_holder, nextProd, statsLog, launchErr, fs, sockSrv,
                   servers, acc, dataLock, prodLock, calls, conn, nsent>>

add_stats(name) ==
    /\ Call
    /\ nextProd < MaxRegs
    /\ nextProd' = nextProd + 1
    /\ stats_holder' = Insert(stats_holder, name, nextProd + 1)
    /\ statsLog' = Append(statsLog, [name |-> name, prod |-> nextProd + 1])
    /\ UNCHANGED <<alive, path, stats_meta_holder, metaLog, nMeta, launchErr, fs, sockSrv,
                   servers, acc, dataLock, prodLock, calls, conn, nsent>>

set_path(p) ==
    /\ Call
    /\ path # p
    /\ path' = p
    /\ UNCHANGED <<alive, stats_meta_holder, stats_holder, nextProd, statsLog, metaLog, nMeta,
                   launchErr, fs, sockSrv, servers, acc, dataLock, prodLock, calls, conn, nsent>>

\* launch: the path it resolves
ResolvedPath == IF path = "none" THEN DefaultPath ELSE path

\* (variant of RemoveFails: every failure of remove_file is ignored)
RemoveFailsNever(kind, denied) == FALSE

\* launch: std::fs::remove_file fails with something other than NotFound
RemoveFails(kind, denied) == kind = "dir" \/ (kind # "absent" /\ denied)

\* launch returns Err: self is dropped with its maps
Dropped ==
    /\ stats_meta_holder' = EmptyMeta
    /\ stats_holder' = EmptyMap
    /\ statsLog' = <<>>
    /\ metaLog' = <<>>

\* (variant of HolderAfterSwap: the maps are cloned, the builder keeps them)
HolderAfterClone(h) == h

\* launch: std::mem::swap with a fresh BTreeMap leaves the builder's map empty
HolderAfterSwap(h) == [k \in {} |-> h[k]]

\* (variant of ListenerAt: a socket file already there is kept)
ListenerAtKeep(m, p, id) == IF m[p] # 0 THEN m ELSE [m EXCEPT ![p] = id]

\* launch: UnixListener::bind puts the new listener's socket file at the path
ListenerAt(m, p, id) == [m EXCEPT ![p] = id]

\* launch; mkdirFails, denied and bindFails are the environment's answers to
\* create_dir_all, remove_file and UnixListener::bind
launch(mkdirFails, denied, bindFails) ==
    LET p == ResolvedPath
        removed == [fs EXCEPT ![p] = "absent"]
        id == Len(servers) + 1
    IN
    /\ Call
    /\ Len(servers) < MaxLaunch
    /\ path' = p
    /\ IF mkdirFails
       THEN /\ alive' = FALSE
            /\ launchErr' = "creating"
            /\ UNCHANGED <<fs, sockSrv, servers, acc>>
            /\ Dropped
       ELSE IF RemoveFails(fs[p], denied)
       THEN /\ alive' = FALSE
            /\ launchErr' = "deleting"
            /\ UNCHANGED <<fs, sockSrv, servers, acc>>
            /\ Dropped
       ELSE IF bindFails
       THEN /\ alive' = FALSE
            /\ launchErr' = "creating UNIX socket"
            /\ fs' = removed
            /\ sockSrv' = [sockSrv EXCEPT ![p] = 0]
            /\ UNCHANGED <<servers, acc>>
            /\ Dropped
       ELSE /\ alive' = TRUE
            /\ launchErr' = "none"
            /\ fs' = [fs EXCEPT ![p] = "sock"]
            /\ sockSrv' = ListenerAt(sockSrv, p, id)
            /\ servers' = Append(servers, [stats_meta |-> stats_meta_holder,
                                           stats |-> stats_holder,
                                           path |-> p,
                                           statsLog |-> statsLog,
                                           metaLog |-> metaLog])
            /\ acc' = [acc EXCEPT ![id] = "incoming"]
            /\ stats_meta_holder' = HolderAfterSwap(stats_meta_holder)
            /\ stats_holder' = HolderAfterSwap(stats_holder)
            /\ statsLog' = <<>>
            /\ metaLog' = <<>>
    /\ UNCHANGED <<nextProd, nMeta, dataLock, prodLock, calls, conn, nsent>>

\* --------------------------------------------------------------- acceptor
\* listen works through the turns of its for loop; turn c is the c-th
\* incoming().next() over all listeners, and conn[c] is what came of it.
\* The turn is the acceptor's when every earlier turn is over.
Turn(c) ==
    /\ conn[c].pc = "none"
    /\ \A b \in Conns : b < c => conn[b].pc # "none"

\* The listener behind the socket file at p is blocked in incoming()
Listening(p) == fs[p] = "sock" /\ acc[sockSrv[p]] = "incoming"

\* (variant of ListenResume: the acceptor returns when the for loop ends)
ListenResumeOnce(at) == IF at = "ended" THEN "returned" ELSE "incoming"

\* listen: after the match arm the for loop asks incoming() again, and when
\* the for loop has ended the outer loop starts it again
ListenResume(at) == "incoming"

\* listen: incoming() yields Ok(stream) for the peer that connected to the
\* socket file of this listener.  spawn starts serve and the acceptor goes
\* on without waiting for it.
Accept(c) ==
    /\ Turn(c)
    /\ \E p \in Paths :
          /\ Listening(p)
          /\ conn' = [conn EXCEPT ![c] = [NoConn EXCEPT !.pc = "start", !.srv = sockSrv[p]]]
          /\ acc' = [acc EXCEPT ![sockSrv[p]] = ListenResume("spawned")]
    /\ UNCHANGED <<alive, path, stats_meta_holder, stats_holder, nextProd, statsLog, metaLog, nMeta, late, launchErr,
                   fs, sockSrv, servers, dataLock, prodLock, calls, nsent>>

\* listen: incoming() yields Err(e) for a peer that tried to connect; warn!
\* and the next turn.  No thread is spawned.
AcceptError(c) ==
    /\ Turn(c)
    /\ \E p \in Paths :
          /\ Listening(p)
          /\ conn' = [conn EXCEPT ![c] = [NoConn EXCEPT !.pc = "refused", !.srv = sockSrv[p]]]
          /\ acc' = [acc EXCEPT ![sockSrv[p]] = ListenResume("warn")]
    /\ UNCHANGED <<alive, path, stats_meta_holder, stats_holder, nextProd, statsLog, metaLog, nMeta, late, launchErr,
                   fs, sockSrv, servers, dataLock, prodLock, calls, nsent>>

\* listen: incoming() yields None, the for loop ends and the outer loop
\* starts it again.  No thread is spawned.
IncomingEnds(c) ==
    /\ Turn(c)
    /\ \E p \in Paths :
          /\ Listening(p)
          /\ conn' = [conn EXCEPT ![c] = [NoConn EXCEPT !.pc = "no_stream", !.srv = sockSrv[p]]]
          /\ acc' = [acc EXCEPT ![sockSrv[p]] = ListenResume("ended")]
    /\ UNCHANGED <<alive, path, stats_meta_holder, stats_holder, nextProd, statsLog, metaLog, nMeta, late, launchErr,
                   fs, sockSrv, servers, dataLock, prodLock, calls, nsent>>

\* ------------------------------------------------------------------ peer
\* The peer writes a line.  serve sees nothing of the stream before it is
\* back in read_line, so the peer's writes are placed there.
ClientSend(c, l) ==
    /\ conn[c].pc = "read"
    /\ Len(conn[c].inq) < MaxQueue
    /\ \A i \in 1 .. Len(conn[c].inq) : conn[c].inq[i] # Eof
    /\ conn[c].nread + Len(conn[c].inq) < MaxLines
    /\ nsent < MaxSent
    /\ conn' = [conn EXCEPT ![c].inq =
                    Append(@, Stamp(l, conn[c].nread + Len(conn[c].inq) + 1))]
    /\ nsent' = nsent + 1
    /\ UNCHANGED <<alive, path, stats_meta_holder, stats_holder, nextProd, statsLog, metaLog, nMeta, late, launchErr,
                   fs, sockSrv, servers, acc, dataLock, prodLock, calls>>

\* The peer shuts the stream down
ClientClose(c) ==
    /\ conn[c].pc = "read"
    /\ Len(conn[c].inq) < MaxQueue
    /\ \A i \in 1 .. Len(conn[c].inq) : conn[c].inq[i] # Eof
    /\ conn' = [conn EXCEPT ![c].inq = Append(@, Eof)]
    /\ UNCHANGED <<alive, path, stats_meta_holder, stats_holder, nextProd, statsLog, metaLog, nMeta, late, launchErr,
                   fs, sockSrv, servers, acc, dataLock, prodLock, calls, nsent>>

\* ------------------------------------------------------------------ serve
\* What stays of a thread's record when serve returns or starts a new turn
Cleared(k) ==
    [k EXCEPT !.line = NoLine, !.req = NoReq, !.sel = 0, !.passed = EmptyArgs,
              !.pre = 0, !.ret = NoRet, !.resp = NoResp]
\* serve has returned: the stream is dropped, the peer's lines and the
\* responses it was sent are not followed further
Closed(k, why) == [NoConn EXCEPT !.pc = "closed", !.srv = k.srv, !.cause = why]

\* (variant of ServeReturns: a failure of one serve ends every serve thread
\* of its server)
ServeReturnsAll(cs, c, why) ==
    [d \in Conns |->
        IF d = c THEN Closed(cs[d], why)
        ELSE IF /\ why # "eof"
                /\ cs[d].srv = cs[c].srv
                /\ cs[d].pc \notin {"none", "closed", "refused", "no_stream"}
             THEN Closed(cs[d], why)
             ELSE cs[d]]

\* listen's spawned closure: serve has returned, Ok(()) at end of stream or
\* an Err that is logged; the thread ends and nothing else is touched
ServeReturns(cs, c, why) == [cs EXCEPT ![c] = Closed(@, why)]

\* serve: stream.try_clone()?
ServeStart(c, cloneFails) ==
    /\ conn[c].pc = "start"
    /\ conn' = IF cloneFails THEN ServeReturns(conn, c, "io_clone")
                ELSE [conn EXCEPT ![c].pc = "read"]
    /\ UNCHANGED <<alive, path, stats_meta_holder, stats_holder, nextProd, statsLog, metaLog, nMeta, late, launchErr,
                   fs, sockSrv, servers, acc, dataLock, prodLock, calls, nsent>>

\* (variant of Dispatch: a line that does not decode is dropped unanswered)
DispatchDropsBadLine(k, line) ==
    LET d == from_str(line) IN
    IF ~d.ok
    THEN [k EXCEPT !.pc = "read"]
    ELSE IF d.req.req \in {"stats", "stats_meta"}
    THEN [k EXCEPT !.line = line, !.req = d.req, !.pc = "lock_data"]
    ELSE [k EXCEPT !.line = line, !.req = d.req,
                   !.resp = ErrResp(UnknownCommand(d.req)), !.pc = "write"]

\* handle_request up to its first lock: decode, then match req.req
Dispatch(k, line) ==
    LET d == from_str(line) IN
    IF ~d.ok
    THEN [k EXCEPT !.line = line, !.resp = ErrResp(d.err), !.pc = "write"]
    ELSE IF d.req.req \in {"stats", "stats_meta"}
    THEN [k EXCEPT !.line = line, !.req = d.req, !.pc = "lock_data"]
    ELSE [k EXCEPT !.line = line, !.req = d.req,
                   !.resp = ErrResp(UnknownCommand(d.req)), !.pc = "write"]

\* serve: read_line, the zero-length test, and the call of handle_request
ReadLine(c) ==
    LET k == conn[c] IN
    /\ k.pc = "read"
    /\ IF k.inq # <<>>
       THEN LET line == Head(k.inq) IN
            conn' = IF ~read_line_ok(line) THEN ServeReturns(conn, c, "read_invalid_data")
                    ELSE IF line = Eof THEN ServeReturns(conn, c, "eof")
                    ELSE [conn EXCEPT ![c] =
                             Dispatch([k EXCEPT !.inq = Tail(@), !.nread = @ + 1,
                                                !.last = NoSent], line)]
       ELSE FALSE
    /\ UNCHANGED <<alive, path, stats_meta_holder, stats_holder, nextProd, statsLog, metaLog, nMeta, late, launchErr,
                   fs, sockSrv, servers, acc, dataLock, prodLock, calls, nsent>>

\* serve: read_line fails on the socket
ReadFail(c) ==
    /\ conn[c].pc = "read"
    /\ conn' = ServeReturns(conn, c, "io_read")
    /\ UNCHANGED <<alive, path, stats_meta_holder, stats_holder, nextProd, statsLog, metaLog, nMeta, late, launchErr,
                   fs, sockSrv, servers, acc, dataLock, prodLock, calls, nsent>>

\* (variant of LockFree: a lock that is granted to every caller)
LockFreeAlways(holder) == TRUE

\* Mutex::lock: it is granted when no thread holds the mutex
LockFree(holder) == holder = 0

\* (variant of HandlerLock: one mutex guards every producer)
HandlerLockShared(h) == 1

\* add_stats wraps each producer in a Mutex of its own: the mutex that
\* handler.lock() takes for the handle h
HandlerLock(h) == h

\* (variant of DataGuardDropped: the guard lives to the end of handle_request)
DataGuardKept(locks, s) == locks

\* handle_request: the guard of data.lock() is a temporary of the statement
\* it is taken in and is dropped at its end
DataGuardDropped(locks, s) == [locks EXCEPT ![s] = 0]

\* (variant of HandlerGuardDropped: the guard is dropped only when the
\* producer returned a value)
HandlerGuardKeptOnErr(locks, h, r) == IF r.ok THEN [locks EXCEPT ![h] = 0] ELSE locks

\* handle_request: the guard of handler.lock() is a temporary of the let
\* statement and is dropped at its end, on the ? path as well
HandlerGuardDropped(locks, h, r) == [locks EXCEPT ![h] = 0]

\* handle_request: data.lock()
AcquireData(c) ==
    /\ conn[c].pc = "lock_data"
    /\ LockFree(dataLock[conn[c].srv])
    /\ dataLock' = [dataLock EXCEPT ![conn[c].srv] = c]
    /\ conn' = [conn EXCEPT ![c].pc = "locked"]
    /\ UNCHANGED <<alive, path, stats_meta_holder, stats_holder, nextProd, statsLog, metaLog, nMeta, late, launchErr,
                   fs, sockSrv, servers, acc, prodLock, calls, nsent>>

\* (variant of MetaSnapshot: only the names that have a producer)
MetaSnapshotOfProducers(srv) ==
    build_resp(0, MetaValue([n \in DOMAIN srv.stats_meta \cap DOMAIN srv.stats |->
                                srv.stats_meta[n]]))

\* handle_request "stats_meta": the snapshot serialised under the lock
MetaSnapshot(srv) == build_resp(0, MetaValue(srv.stats_meta))

\* handle_request under data's lock: stats.get(target) and the clone of the
\* handle, or the stats_meta snapshot; the guard is dropped at the end
Lookup(c) ==
    LET k == conn[c]
        srv == servers[k.srv]
        target == Target(k.req)
    IN
    /\ k.pc = "locked"
    /\ dataLock' = DataGuardDropped(dataLock, k.srv)
    /\ conn' = [conn EXCEPT ![c] =
          IF k.req.req = "stats_meta"
          THEN [k EXCEPT !.resp = MetaSnapshot(srv), !.pc = "write"]
          ELSE IF target \in DOMAIN srv.stats
          THEN [k EXCEPT !.sel = srv.stats[target], !.pc = "lock_handler"]
          ELSE [k EXCEPT !.resp = ErrResp(UnknownTarget(k.req)), !.pc = "write"]]
    /\ UNCHANGED <<alive, path, stats_meta_holder, stats_holder, nextProd, statsLog, metaLog, nMeta, late, launchErr,
                   fs, sockSrv, servers, acc, prodLock, calls, nsent>>

\* handle_request: handler.lock()
AcquireHandler(c) ==
    /\ conn[c].pc = "lock_handler"
    /\ LockFree(prodLock[HandlerLock(conn[c].sel)])
    /\ prodLock' = [prodLock EXCEPT ![HandlerLock(conn[c].sel)] = c]
    /\ conn' = [conn EXCEPT ![c].pc = "invoke", ![c].pre = calls[conn[c].sel]]
    /\ UNCHANGED <<alive, path, stats_meta_holder, stats_holder, nextProd, statsLog, metaLog, nMeta, late, launchErr,
                   fs, sockSrv, servers, acc, dataLock, calls, nsent>>

\* handle_request: the args the producer is called with
CallArgs(req) == req.args

\* (variant of FetchResp: the producer's value is sent as its text)
FetchRespAsText(r) ==
    IF r.ok THEN build_resp(0, StrValue(r.val)) ELSE ErrResp(r.err)

\* handle_request: the Response made of what the producer returned
FetchResp(r) == IF r.ok THEN build_resp(0, r.val) ELSE ErrResp(r.err)

\* (variant of Invoked: the request runs every registered producer)
InvokedAll(cs, h) == [p \in DOMAIN cs |-> IF p <= nextProd THEN cs[p] + 1 ELSE cs[p]]

\* handle_request: the one call of the closure behind the handle h
Invoked(cs, h) == [cs EXCEPT ![h] = @ + 1]

\* handle_request: the producer returns r; its guard is dropped
Invoke(c, r) ==
    LET k == conn[c] IN
    /\ k.pc = "invoke"
    /\ r \in FetchResults(CallArgs(k.req))
    /\ calls' = Invoked(calls, k.sel)
    /\ prodLock' = HandlerGuardDropped(prodLock, HandlerLock(k.sel), r)
    /\ conn' = [conn EXCEPT ![c] =
          [k EXCEPT !.passed = CallArgs(k.req), !.ret = r, !.resp = FetchResp(r),
                    !.pc = "write"]]
    /\ UNCHANGED <<alive, path, stats_meta_holder, stats_holder, nextProd, statsLog, metaLog, nMeta, late, launchErr,
                   fs, sockSrv, servers, acc, dataLock, nsent>>

\* the producer never returns: the thread stays in the call, lock held
Hang(c) ==
    /\ conn[c].pc = "invoke"
    /\ conn' = [conn EXCEPT ![c].pc = "hung"]
    /\ UNCHANGED <<alive, path, stats_meta_holder, stats_holder, nextProd, statsLog, metaLog, nMeta, late, launchErr,
                   fs, sockSrv, servers, acc, dataLock, prodLock, calls, nsent>>

\* serve: what write_all puts on the stream
Written(resp, line, k) == Sent(resp, line, k)

\* serve: to_string and write_all, then the next turn of the loop.  write_all
\* returns when the peer has taken the bytes: a thread stays here for as
\* long as its peer is slow.
WriteResp(c) ==
    LET k == conn[c] IN
    /\ k.pc = "write"
    /\ conn' = [conn EXCEPT ![c] =
          [Cleared(k) EXCEPT !.last = Written(k.resp, k.line, k.nread),
                             !.nout = @ + 1, !.pc = "read"]]
    /\ UNCHANGED <<alive, path, stats_meta_holder, stats_holder, nextProd, statsLog, metaLog, nMeta, late, launchErr,
                   fs, sockSrv, servers, acc, dataLock, prodLock, calls, nsent>>

\* serve: write_all fails (broken pipe)
WriteFail(c) ==
    /\ conn[c].pc = "write"
    /\ conn' = ServeReturns(conn, c, "io_write")
    /\ UNCHANGED <<alive, path, stats_meta_holder, stats_holder, nextProd, statsLog, metaLog, nMeta, late, launchErr,
                   fs, sockSrv, servers, acc, dataLock, prodLock, calls, nsent>>

\* ---------------------------------------------------------- specification
Next ==
    \/ \E n \in MetaNames : add_stats_meta(Meta(n, nMeta + 1))
    \/ \E n \in Names : add_stats(n)
    \/ \E p \in Paths : set_path(p)
    \/ \E a, b, d \in BOOLEAN : launch(a, b, d)
    \/ \E c \in Conns : Accept(c)
    \/ \E c \in Conns : AcceptError(c)
    \/ \E c \in Conns : IncomingEnds(c)
    \/ \E c \in Conns, l \in LineKinds : ClientSend(c, l)
    \/ \E c \in Conns : ClientClose(c)
    \/ \E c \in Conns, f \in BOOLEAN : ServeStart(c, f)
    \/ \E c \in Conns : ReadLine(c)
    \/ \E c \in Conns : ReadFail(c)
    \/ \E c \in Conns : AcquireData(c)
    \/ \E c \in Conns : Lookup(c)
    \/ \E c \in Conns : AcquireHandler(c)
    \/ \E c \in Conns : \E r \in FetchResults(CallArgs(conn[c].req)) : Invoke(c, r)
    \/ \E c \in Conns : Hang(c)
    \/ \E c \in Conns : WriteResp(c)
    \/ \E c \in Conns : WriteFail(c)

Spec == Init /\ [][Next]_vars

\* The threads are the operating system's: a serve thread that can take its
\* next step takes it.  read_line returns once the peer has sent something,
\* a lock is granted once it is free, and a thread inside a producer either
\* comes back or is stuck there for good.  Nothing is assumed of the builder's
\* caller, of the peers, or of write_all, which waits for the peer.
Fairness ==
    \A c \in Conns :
        /\ WF_vars(\E f \in BOOLEAN : ServeStart(c, f))
        /\ WF_vars(ReadLine(c))
        /\ WF_vars(AcquireData(c))
        /\ WF_vars(Lookup(c))
        /\ WF_vars(AcquireHandler(c))
        /\ WF_vars(Hang(c) \/ \E r \in FetchResults(CallArgs(conn[c].req)) : Invoke(c, r))

\* One caller of the builder: two producers and a descriptor, then launch
Program ==
    \/ nextProd = 0 /\ add_stats("cpu")
    \/ nextProd = 1 /\ add_stats("top")
    \/ nextProd = 2 /\ nMeta = 0 /\ add_stats_meta(Meta("cpu", 1))
    \/ nMeta = 1 /\ servers = <<>> /\ launch(FALSE, FALSE, FALSE)

\* The server of that caller: Next with the builder calls of Program
FairNext ==
    \/ Program
    \/ \E c \in Conns : Accept(c)
    \/ \E c \in Conns : AcceptError(c)
    \/ \E c \in Conns : IncomingEnds(c)
    \/ \E c \in Conns, l \in LineKinds : ClientSend(c, l)
    \/ \E c \in Conns : ClientClose(c)
    \/ \E c \in Conns, f \in BOOLEAN : ServeStart(c, f)
    \/ \E c \in Conns : ReadLine(c)
    \/ \E c \in Conns : ReadFail(c)
    \/ \E c \in Conns : AcquireData(c)
    \/ \E c \in Conns : Lookup(c)
    \/ \E c \in Conns : AcquireHandler(c)
    \/ \E c \in Conns : \E r \in FetchResults(CallArgs(conn[c].req)) : Invoke(c, r)
    \/ \E c \in Conns : Hang(c)
    \/ \E c \in Conns : WriteResp(c)
    \/ \E c \in Conns : WriteFail(c)

FairSpec == Init /\ [][FairNext]_vars /\ Fairness

\* ------------------------------------------------------------ properties
Active(c) == conn[c].pc \notin {"none", "start", "closed", "refused", "no_stream"}
\* The thread is inside the producer call
Executing(c) == conn[c].pc \in {"invoke", "hung"}
\* The thread has a line it has read and not yet answered
Busy(c) == Active(c) /\ conn[c].pc # "read"
SrvOf(c) == servers[conn[c].srv]
IsStats(c) == from_str(conn[c].line).ok /\ conn[c].req.req = "stats"
IsDescription(v) == Len(v) > 1 /\ v[1] = "str"

\* C1: at most one connection thread is inside a given producer at any time;
\* two "stats" requests for the same name of one server never overlap in it.
C1_ProducerSerialized ==
    \A c1, c2 \in Conns :
        (/\ Executing(c1) /\ Executing(c2)
         /\ \/ conn[c1].sel = conn[c2].sel
            \/ /\ conn[c1].srv = conn[c2].srv
               /\ Target(conn[c1].req) = Target(conn[c2].req))
        => c1 = c2

\* One thread is inside a producer while another waits for that producer's lock.
C1_Witness ==
    \E c1, c2 \in Conns :
        /\ c1 # c2
        /\ Executing(c1)
        /\ conn[c2].pc = "lock_handler"
        /\ conn[c2].sel = conn[c1].sel
        /\ Target(conn[c1].req) = Target(conn[c2].req)

C3_MalformedLineKeepsOpen ==
    \A c \in Conns :
        conn[c].pc = "closed" => conn[c].cause \in {"eof", "io_read", "io_write", "io_clone"}

\* C4: the Response about to be written has errno 0 exactly when the request
\* succeeded, and a failure carries a description under "resp".
Succeeded(c) ==
    /\ from_str(conn[c].line).ok
    /\ \/ conn[c].req.req = "stats_meta"
       \/ /\ conn[c].req.req = "stats"
          /\ Target(conn[c].req) \in DOMAIN SrvOf(c).stats
          /\ conn[c].ret.ok
C4_ErrnoIffSuccess ==
    \A c \in Conns :
        conn[c].pc = "write" =>
            /\ conn[c].resp.errno = 0 <=> Succeeded(c)
            /\ DOMAIN conn[c].resp.args = {"resp"}
            /\ conn[c].resp.errno # 0 => IsDescription(conn[c].resp.args["resp"])

\* A producer failure tagged ScxStatsErrno(0) is about to be answered.
C4_Witness ==
    \E c \in Conns :
        /\ conn[c].pc = "write"
        /\ ~conn[c].ret.ok /\ conn[c].ret.err.tagged /\ conn[c].ret.err.code = 0
        /\ conn[c].resp.errno # 0

\* C5: a "stats" request for a registered name calls that name's producer
\* with the request's args, and when the producer returns a value the
\* Response is errno 0 with exactly that value under "resp".
C5_StatsReturnsValue ==
    \A c \in Conns :
        (conn[c].pc = "write" /\ IsStats(c)
         /\ Target(conn[c].req) \in DOMAIN SrvOf(c).stats) =>
            /\ conn[c].sel = SrvOf(c).stats[Target(conn[c].req)]
            /\ conn[c].passed = conn[c].req.args
            /\ conn[c].ret.ok =>
                   /\ conn[c].resp.errno = 0
                   /\ DOMAIN conn[c].resp.args = {"resp"}
                   /\ conn[c].resp.args["resp"] = conn[c].ret.val

\* The producer of "cpu" has returned a value for {"target": "cpu"}.
C5_Witness ==
    \E c \in Conns :
        /\ conn[c].pc = "write"
        /\ conn[c].req.req = "stats"
        /\ conn[c].req.args = Arg1("target", "cpu")
        /\ conn[c].ret.ok
        /\ conn[c].resp.args["resp"] = EchoVal(Arg1("target", "cpu"))

\* The same request with "target" set to "top"
WithTop(req) ==
    [req EXCEPT !.args = [k \in DOMAIN req.args \cup {"target"} |->
                             IF k = "target" THEN "top" ELSE req.args[k]]]
NoTarget(c) == IsStats(c) /\ "target" \notin DOMAIN conn[c].req.args

\* C6 as stated: the Response to a "stats" request without target is a
\* Response the same request with target = "top" gets.
C6_SameResponseAsTop ==
    \A c \in Conns :
        (conn[c].pc = "write" /\ NoTarget(c)) =>
            IF "top" \in DOMAIN SrvOf(c).stats
            THEN conn[c].resp \in {FetchResp(r) : r \in FetchResults(WithTop(conn[c].req).args)}
            ELSE conn[c].resp = ErrResp(UnknownTarget(WithTop(conn[c].req)))

\* C6 amended: a "stats" request without target selects the producer
\* registered as "top", or fails with EINVAL as unknown target when there is
\* none; the producer gets the args as sent (no "target" key) and the failure
\* describes the request as sent.
C6_DefaultTargetTop ==
    \A c \in Conns :
        (NoTarget(c) /\ conn[c].pc \in {"lock_handler", "invoke", "hung", "write"}) =>
            IF "top" \in DOMAIN SrvOf(c).stats
            THEN /\ conn[c].sel = SrvOf(c).stats["top"]
                 /\ conn[c].pc = "write" =>
                        /\ conn[c].passed = conn[c].req.args
                        /\ conn[c].resp \in {FetchResp(r) : r \in FetchResults(conn[c].req.args)}
            ELSE /\ conn[c].pc = "write"
                 /\ conn[c].sel = 0
                 /\ conn[c].resp.errno = EINVAL
                 /\ conn[c].resp = ErrResp(UnknownTarget(conn[c].req))
                 /\ conn[c].resp.errno = ErrResp(UnknownTarget(WithTop(conn[c].req))).errno

\* A request without target is inside the producer registered as "top"
\* while "cpu" is registered too.
C6_Witness ==
    \E c \in Conns :
        /\ NoTarget(c)
        /\ conn[c].pc = "invoke"
        /\ DOMAIN SrvOf(c).stats = {"cpu", "top"}
        /\ conn[c].sel = SrvOf(c).stats["top"]

\* C7: an unregistered target and an unknown command are answered with
\* errno EINVAL and a description, and no producer was called for them.
C7_InvalidArgument ==
    \A c \in Conns :
        (/\ conn[c].pc = "write"
         /\ from_str(conn[c].line).ok
         /\ \/ conn[c].req.req \notin {"stats", "stats_meta"}
            \/ /\ conn[c].req.req = "stats"
               /\ Target(conn[c].req) \notin DOMAIN SrvOf(c).stats) =>
            /\ conn[c].resp.errno = EINVAL
            /\ IsDescription(conn[c].resp.args["resp"])
            /\ conn[c].sel = 0
            /\ conn[c].ret = NoRet

\* Both cases are about to be answered, on a server that has producers.
C7_Witness ==
    \E c1, c2 \in Conns :
        /\ conn[c1].pc = "write" /\ conn[c2].pc = "write"
        /\ conn[c1].req.req = "bogus"
        /\ conn[c2].req.req = "stats" /\ Target(conn[c2].req) = "nope"
        /\ SrvOf(c2).stats # EmptyMap

\* The pairs a sequence of add_stats_meta calls registers: each name with
\* the descriptor of the last call that names it
LastOf(log, n) ==
    CHOOSE i \in DOMAIN log :
        log[i].name = n /\ \A j \in DOMAIN log : j > i => log[j].name # n
PairsOf(log) ==
    [n \in {log[i].name : i \in DOMAIN log} |-> log[LastOf(log, n)].desc]

\* C8: a "stats_meta" request is answered with errno 0 and exactly the
\* name -> descriptor pairs registered before the launch of its server.
C8_MetaExact ==
    \A c \in Conns :
        (conn[c].pc = "write" /\ from_str(conn[c].line).ok
         /\ conn[c].req.req = "stats_meta") =>
            /\ conn[c].resp.errno = 0
            /\ DOMAIN conn[c].resp.args = {"resp"}
            /\ conn[c].resp.args["resp"] = MetaValue(PairsOf(SrvOf(c).metaLog))

\* "stats_meta" as the second request of a connection, on a server with a
\* descriptor registered twice and no producer of that name.
C8_Witness ==
    \E c \in Conns :
        /\ conn[c].pc = "write"
        /\ conn[c].req.req = "stats_meta"
        /\ conn[c].nread = 2
        /\ Len(SrvOf(c).metaLog) = 2
        /\ "cpu" \notin DOMAIN SrvOf(c).stats
        /\ conn[c].resp.args["resp"] = <<"obj", "cpu", "2">>

C10_RegistryFrozen ==
    [][/\ \A s \in 1 .. Len(servers) :
              /\ s <= Len(servers')
              /\ servers'[s].stats = servers[s].stats
              /\ servers'[s].stats_meta = servers[s].stats_meta
       /\ Len(servers') > Len(servers) =>
              /\ servers'[Len(servers')].stats = stats_holder
              /\ servers'[Len(servers')].stats_meta = stats_meta_holder
              /\ stats_holder' = EmptyMap
              /\ stats_meta_holder' = EmptyMeta]_vars

\* A server launched with a producer, called since, while the returned
\* builder has had another producer added.
C10_Witness ==
    /\ servers # <<>>
    /\ DOMAIN servers[1].stats = {"cpu"}
    /\ "cpu" \in DOMAIN stats_holder
    /\ \E p \in Prods : calls[p] > 0

\* The locks thread c holds
HoldsData(c) == \E s \in Srvs : dataLock[s] = c
HoldsProd(c) == \E p \in Prods : prodLock[p] = c
\* End of stream is what the thread's next read_line meets
AtEof(c) == conn[c].pc = "read" /\ conn[c].inq # <<>> /\ Head(conn[c].inq) = Eof

\* C11: at end of stream the thread's next step is the return of serve, with
\* Ok(()) unless the socket fails; a step in which serve returns, for end of
\* stream or for an I/O failure, changes nothing but that connection: the
\* other threads, the acceptor, the servers and the locks are as before, and
\* the thread that ends holds no lock.
C11_CloseIsLocal ==
    [][\A c \in Conns :
          /\ (AtEof(c) /\ conn'[c] # conn[c]) =>
                 /\ conn'[c].pc = "closed"
                 /\ conn'[c].cause \in {"eof", "io_read"}
          /\ (conn[c].pc # "closed" /\ conn'[c].pc = "closed") =>
                 /\ conn'[c].cause = "eof" => AtEof(c)
                 /\ \A d \in Conns \ {c} : conn'[d] = conn[d]
                 /\ UNCHANGED <<bvars, fvars, svars>>
                 /\ ~HoldsData(c) /\ ~HoldsProd(c)]_vars

\* A connection has ended at end of stream, another
\* ended on a failed write, and the latest listener is in incoming().
C11_Witness ==
    \E c, d \in Conns :
        /\ conn[c].pc = "closed" /\ conn[c].cause = "eof"
        /\ conn[d].pc = "closed" /\ conn[d].cause = "io_write"
        /\ Listening(DefaultPath)

\* A line that read_line accepts is what the thread's next read_line meets
Asked(c) ==
    /\ conn[c].pc = "read"
    /\ conn[c].inq # <<>>
    /\ Head(conn[c].inq) # Eof
    /\ read_line_ok(Head(conn[c].inq))
\* The thread has its Response and is in write_all (where it stays for as
\* long as its own peer is slow), is stuck in its own producer call, or its
\* serve has returned
AnsweredOrOwn(c) == conn[c].pc \in {"write", "hung", "closed"}
\* The thread waits for the lock of a producer another thread is stuck in
BehindHung(c) ==
    /\ conn[c].pc = "lock_handler"
    /\ \E b \in Conns : conn[b].pc = "hung" /\ conn[b].sel = conn[c].sel

\* C12 as stated: whatever hangs or is slow on the other connections, a
\* request sent on a connection gets its Response, unless its own producer
\* call hangs or its own connection fails.
C12_OthersAnswered == \A c \in Conns : Asked(c) ~> AnsweredOrOwn(c)

\* C12 amended: a request gets its Response unless its own producer call
\* hangs, its own connection fails, or it is for the stat name whose producer
\* another thread is stuck in: then it waits for that producer's lock.
C12_OthersAnsweredUnlessSameName ==
    \A c \in Conns : Asked(c) ~> (AnsweredOrOwn(c) \/ BehindHung(c))

\* One thread is stuck in the producer of "top"; a second thread has its
\* Response from the producer of "cpu" and is in write_all.
C12_Witness ==
    \E b, c \in Conns :
        /\ conn[b].pc = "hung" /\ Target(conn[b].req) = "top"
        /\ conn[c].pc = "write"
        /\ IsStats(c) /\ Target(conn[c].req) = "cpu" /\ conn[c].ret # NoRet

\* C13: a launch that succeeds found nothing, a file or a socket at the
\* resolved path, never a directory, and leaves the new listener's socket
\* there; a launch that fails in remove_file leaves the path, the listeners,
\* the servers and the acceptors as they were and moves no map into a server;
\* a directory at the path never lets launch get to bind, and a launch that
\* fails in bind has removed the file first.
C13_StaleSocket ==
    [][LET p == ResolvedPath IN
       /\ servers' # servers =>
              /\ fs[p] \in {"absent", "stale", "sock"}
              /\ fs'[p] = "sock"
              /\ sockSrv'[p] = Len(servers') /\ acc'[Len(servers')] = "incoming"
              /\ launchErr' = "none" /\ alive'
       /\ (alive /\ ~alive') =>
              /\ launchErr' \in {"creating", "deleting", "creating UNIX socket"}
              /\ fs[p] = "dir" => launchErr' # "creating UNIX socket"
              /\ launchErr' = "deleting" =>
                     /\ fs[p] # "absent"
                     /\ UNCHANGED <<fs, sockSrv, servers, acc, svars>>
              /\ launchErr' = "creating UNIX socket" => fs'[p] = "absent"
              /\ servers' = servers
              /\ stats_holder' = EmptyMap /\ stats_meta_holder' = EmptyMeta]_vars

\* The first launch succeeded; the launch of the returned builder could not
\* remove the socket file, which is still the first listener's.
C13_Witness ==
    /\ launchErr = "deleting"
    /\ Len(servers) = 1
    /\ fs[DefaultPath] = "sock"
    /\ Listening(DefaultPath)

\* The producer a sequence of add_stats calls leaves under the name n: the
\* one of the last call that names it
LastProducer(log, n) == log[LastOf(log, n)].prod
\* The map m holds, for each name of log, the producer registered last
LastWriteWins(m, log) ==
    /\ DOMAIN m = {log[i].name : i \in DOMAIN log}
    /\ \A n \in DOMAIN m : m[n] = LastProducer(log, n)
    /\ \A n1, n2 \in DOMAIN m : m[n1] = m[n2] => n1 = n2
\* The thread has taken a producer out of the registry
Selected(c) ==
    \/ conn[c].pc \in {"lock_handler", "invoke", "hung"}
    \/ conn[c].pc = "write" /\ conn[c].ret # NoRet

\* C14: the registry of a running server, like the builder's map, holds for
\* each registered name the producer of the last add_stats call for that
\* name, no producer under two names; the producer a "stats" request takes
\* out of the registry, locks and calls is that one.
C14_LastWriteWins ==
    /\ LastWriteWins(stats_holder, statsLog)
    /\ \A s \in 1 .. Len(servers) : LastWriteWins(servers[s].stats, servers[s].statsLog)
    /\ \A c \in Conns :
          Selected(c) =>
              /\ conn[c].sel = LastProducer(SrvOf(c).statsLog, Target(conn[c].req))
              /\ Executing(c) => prodLock[HandlerLock(conn[c].sel)] = c

\* "cpu" was registered twice before the launch; a request for it has been
\* answered by the second producer, and the first was never called.
C14_Witness ==
    \E c \in Conns :
        /\ conn[c].pc = "write" /\ conn[c].ret # NoRet
        /\ Target(conn[c].req) = "cpu"
        /\ SrvOf(c).statsLog = <<[name |-> "cpu", prod |-> 1], [name |-> "cpu", prod |-> 2]>>
        /\ calls = <<0, 1>>

\* The locks thread c holds, counted
LocksHeld(c) ==
    Cardinality({s \in Srvs : dataLock[s] = c}) + Cardinality({p \in Prods : prodLock[p] = c})
\* The thread waits in Mutex::lock
WaitsData(c) == conn[c].pc = "lock_data" /\ dataLock[conn[c].srv] # 0
WaitsProd(c) == conn[c].pc = "lock_handler" /\ prodLock[HandlerLock(conn[c].sel)] # 0

\* C15: a thread holds the registry lock only in the lookup step of its own
\* server and a producer lock only inside that producer's call; a thread that
\* holds or waits for a producer lock does not hold the registry lock; no
\* thread holds two locks; and the holder of a lock another thread waits for
\* is never itself waiting for a lock.
C15_RegistryLockBrief ==
    \A c \in Conns :
        /\ HoldsData(c) <=> conn[c].pc = "locked"
        /\ HoldsData(c) => dataLock[conn[c].srv] = c
        /\ HoldsProd(c) <=> Executing(c)
        /\ conn[c].pc \in {"lock_handler", "invoke", "hung"} => ~HoldsData(c)
        /\ LocksHeld(c) <= 1
        /\ WaitsData(c) => conn[dataLock[conn[c].srv]].pc = "locked"
        /\ WaitsProd(c) => Executing(prodLock[HandlerLock(conn[c].sel)])

\* One thread holds the registry lock for its lookup while another thread
\* of the same server is stuck inside a producer.
C15_Witness ==
    \E b, c \in Conns :
        /\ conn[b].pc = "hung"
        /\ conn[c].pc = "locked" /\ conn[c].srv = conn[b].srv
        /\ IsStats(c) /\ Target(conn[c].req) = Target(conn[b].req)

\* Thread c has a request that needs no lock thread b is inside a producer
\* with: "stats_meta", or "stats" for another registered name
Apart(b, c) ==
    /\ b # c
    /\ Executing(b)
    /\ conn[c].pc \in {"lock_data", "locked", "lock_handler"}
    /\ \/ conn[c].req.req = "stats_meta"
       \/ /\ conn[c].req.req = "stats"
          /\ Target(conn[c].req) \in DOMAIN SrvOf(c).stats
          /\ SrvOf(c).stats[Target(conn[c].req)] # conn[b].sel

\* C16: while thread b is inside, or stuck inside, a producer, b holds
\* neither the registry lock nor the lock of any other producer, and a
\* "stats_meta" request or a "stats" request for another registered name on
\* another connection gets its Response (unless its own producer call hangs,
\* or a third thread is stuck in the producer it needs).
C16_DifferentNamesParallel ==
    /\ [](\A b, c \in Conns :
            Apart(b, c) =>
                /\ dataLock[conn[c].srv] # b
                /\ conn[c].pc = "lock_handler" => prodLock[HandlerLock(conn[c].sel)] # b)
    /\ \A b, c \in Conns :
          Apart(b, c) ~> (conn[c].pc \in {"write", "hung"} \/ BehindHung(c))

\* The producers of "cpu" and "top" are executing at the same time.
C16_Witness ==
    \E b, c \in Conns :
        /\ conn[b].pc = "invoke" /\ Target(conn[b].req) = "cpu"
        /\ conn[c].pc = "invoke" /\ Target(conn[c].req) = "top"
        /\ conn[b].sel # conn[c].sel
        /\ conn[b].srv = conn[c].srv

\* The request of thread c has failed, and the anyhow::Error it failed with
Failed(c) == conn[c].pc = "write" /\ ~Succeeded(c)
FailureOf(c) ==
    LET d == from_str(conn[c].line) IN
    IF ~d.ok THEN d.err
    ELSE IF conn[c].req.req \notin {"stats", "stats_meta"} THEN UnknownCommand(conn[c].req)
    ELSE IF Target(conn[c].req) \notin DOMAIN SrvOf(c).stats THEN UnknownTarget(conn[c].req)
    ELSE conn[c].ret.err

\* C17 as stated: the errno of a failed request is the ScxStatsErrno code
\* the failure carries, as it is, and EINVAL when it carries none.
C17_ErrnoAsIs ==
    \A c \in Conns :
        Failed(c) =>
            conn[c].resp.errno =
                IF FailureOf(c).tagged THEN FailureOf(c).code ELSE EINVAL

\* C17 amended: the errno of a failed request is the ScxStatsErrno code the
\* failure carries when that code is not 0, and EINVAL when the code is 0 or
\* the failure carries none (a decode error, an untagged producer failure).
C17_ErrnoNonZeroAsIs ==
    \A c \in Conns :
        Failed(c) =>
            /\ conn[c].resp.errno # 0
            /\ conn[c].resp.errno =
                   IF FailureOf(c).tagged /\ FailureOf(c).code # 0
                   THEN FailureOf(c).code ELSE EINVAL
            /\ ~from_str(conn[c].line).ok => conn[c].resp.errno = EINVAL

\* A producer failure tagged ScxStatsErrno(2) is about to be answered with
\* errno 2 while a line that did not decode is answered with EINVAL.
C17_Witness ==
    \E b, c \in Conns :
        /\ Failed(b) /\ FailureOf(b) = ErrTagged(2, <<"fetch failed">>)
        /\ conn[b].resp.errno = 2
        /\ Failed(c) /\ ~from_str(conn[c].line).ok
        /\ conn[c].resp.errno = EINVAL

\* The step is the acceptor's: a turn of its for loop is taken
AcceptorStep == acc' # acc \/ \E c \in Conns : conn[c].pc = "none" /\ conn'[c].pc # "none"

\* C18: the acceptor of every server is in incoming() whatever came of its
\* earlier turns and whatever the serve threads are doing (ended, waiting for
\* a lock, stuck in a producer, waiting in write_all): while the socket file
\* is there and a turn is left, a peer can be accepted.  An acceptor step
\* touches no lock and no other connection, and an accepted connection
\* starts as a thread of its own holding nothing.
C18_AcceptorKeepsAccepting ==
    /\ [](/\ \A s \in Srvs : acc[s] = (IF s <= Len(servers) THEN "incoming" ELSE "none")
          /\ \A c \in Conns :
                (Turn(c) /\ \E p \in Paths : fs[p] = "sock") => ENABLED Accept(c))
    /\ [][AcceptorStep =>
            /\ UNCHANGED <<dataLock, prodLock, calls>>
            /\ \A c \in Conns :
                  \/ conn'[c] = conn[c]
                  \/ /\ Turn(c)
                     /\ conn'[c].pc \in {"start", "refused", "no_stream"}
                     /\ conn'[c] = [NoConn EXCEPT !.pc = conn'[c].pc, !.srv = conn'[c].srv]
                     /\ ~HoldsData(c) /\ ~HoldsProd(c)]_vars

\* The first turn of the acceptor met the end of incoming(); the peer of the
\* second was accepted and has been sent a line's Response.
C18_Witness ==
    /\ conn[1].pc = "no_stream"
    /\ conn[2].pc = "read" /\ conn[2].nout = 1
    /\ \A s \in 1 .. Len(servers) : acc[s] = "incoming"

\* C19: the step in which a producer returns, a value or a failure, leaves
\* its lock free, and that step comes before the Response is written; a
\* thread that is not inside a producer (in write_all for a slow peer, back
\* in read_line, ended) holds no producer lock; and a thread waiting for a
\* producer's lock can take it unless another thread is inside that producer.
C19_HandlerLockReleased ==
    /\ [](\A c \in Conns :
            /\ ~Executing(c) => ~HoldsProd(c)
            /\ (/\ conn[c].pc = "lock_handler"
                /\ \A b \in Conns : Executing(b) => conn[b].sel # conn[c].sel)
               => ENABLED AcquireHandler(c))
    /\ [][\A c \in Conns :
            (conn[c].pc = "invoke" /\ conn'[c].pc # "invoke" /\ conn'[c].pc # "hung") =>
                /\ conn'[c].pc = "write"
                /\ conn'[c].nout = conn[c].nout
                /\ prodLock[HandlerLock(conn[c].sel)] = c
                /\ prodLock'[HandlerLock(conn[c].sel)] = 0]_vars

\* A producer has returned a failure to a thread that is still in write_all,
\* and another thread is inside the same producer since.
C19_Witness ==
    \E b, c \in Conns :
        /\ conn[b].pc = "write" /\ conn[b].ret # NoRet /\ ~conn[b].ret.ok
        /\ conn[c].pc = "invoke" /\ conn[c].sel = conn[b].sel
        /\ conn[c].pre = conn[b].pre + 1

\* Thread c's request is a "stats" request whose target is registered
ForProducer(c) == IsStats(c) /\ Target(conn[c].req) \in DOMAIN SrvOf(c).stats
\* In this step thread c's request gets what a producer returned
Returned(c) == conn'[c].ret # conn[c].ret /\ conn'[c].ret # NoRet

\* C20: a request gets a producer's return at most once, only when it is a
\* "stats" request with a registered target, and from that target's producer,
\* whose state advances by one call while every other producer's state stays
\* as it is; no other step changes a producer's state; and a Response about
\* to be written comes with a producer's return exactly for those requests,
\* the others having selected no producer.
C20_OneProducerOnce ==
    /\ [](\A c \in Conns :
            /\ conn[c].pc \in {"lock_data", "locked", "lock_handler", "invoke", "hung"} =>
                   conn[c].ret = NoRet
            /\ conn[c].pc = "write" =>
                   /\ conn[c].ret # NoRet <=> ForProducer(c)
                   /\ ~ForProducer(c) => conn[c].sel = 0)
    /\ [][/\ \A c \in Conns :
                Returned(c) =>
                    /\ conn[c].ret = NoRet
                    /\ ForProducer(c)
                    /\ conn[c].sel = SrvOf(c).stats[Target(conn[c].req)]
                    /\ calls' = [calls EXCEPT ![conn[c].sel] = @ + 1]
                    /\ \A d \in Conns \ {c} : conn'[d] = conn[d]
          /\ calls' # calls => \E c \in Conns : Returned(c)]_vars

\* The producer of "cpu" has been called once, for the request about to be
\* answered; the producer of "top" never, though a "stats_meta" request and
\* this one have been read on the server.
C20_Witness ==
    \E b, c \in Conns :
        /\ conn[c].pc = "write" /\ ForProducer(c) /\ Target(conn[c].req) = "cpu"
        /\ calls[conn[c].sel] = 1
        /\ "top" \in DOMAIN SrvOf(c).stats /\ calls[SrvOf(c).stats["top"]] = 0
        /\ conn[b].pc = "write" /\ conn[b].req.req = "stats_meta"
        /\ conn[b].srv = conn[c].srv

====
